---------------------------- MODULE Spec2Model ----------------------------
(***************************************************************************)
(* Model of frommer_watcher.py: one check-and-notify cycle over the site   *)
(* registry (fetch, parse, match, deduplicate, notify).                    *)
(*                                                                         *)
(* Text (str) is a sequence of characters.  A character is a one-letter    *)
(* string; the four non-ASCII code points that matter to str.lower() and   *)
(* to re.IGNORECASE are written "u0130" (I with dot above), "u0131"        *)
(* (dotless i), "u017f" (long s) and "u0307" (combining dot above).        *)
(***************************************************************************)
EXTENDS Integers, Sequences, FiniteSets, TLC

\* ------------------------------------------------------------------ bounds
\* most result cards on one fetched page
MaxCards == 2
\* most padding characters before and after the phrase in a probed title
MaxPad == 1

\* ------------------------------------------------------------ text helpers
\* Python's None; a one-element tuple that is no text of the model
None == <<"None@">>

\* Python truthiness of an optional str: None and "" are falsy
Falsy(s) == s = None \/ s = <<>>

ASCII_LOWER == <<"a","b","c","d","e","f","g","h","i","j","k","l","m","n","o","p","q","r","s","t","u","v","w","x","y","z">>
ASCII_UPPER == <<"A","B","C","D","E","F","G","H","I","J","K","L","M","N","O","P","Q","R","S","T","U","V","W","X","Y","Z">>
DIGITS == <<"0","1","2","3","4","5","6","7","8","9">>

IndexIn(c, tbl) == IF \E i \in 1..Len(tbl) : tbl[i] = c
                   THEN CHOOSE i \in 1..Len(tbl) : tbl[i] = c
                   ELSE 0

UPPER_LETTERS == {ASCII_UPPER[i] : i \in 1..Len(ASCII_UPPER)}
LOWER_LETTERS == {ASCII_LOWER[i] : i \in 1..Len(ASCII_LOWER)}
LOWER_OF == [c \in UPPER_LETTERS |-> ASCII_LOWER[IndexIn(c, ASCII_UPPER)]]
UPPER_OF == [c \in LOWER_LETTERS |-> ASCII_UPPER[IndexIn(c, ASCII_LOWER)]]

\* str.lower() of one character: the full lower-case mapping.  U+0130
\* lower-cases to "i" followed by U+0307; dotless i and long s are already
\* lower case.
CharLower(c) == IF c \in UPPER_LETTERS THEN <<LOWER_OF[c]>>
                ELSE IF c = "u0130" THEN <<"i", "u0307">>
                ELSE <<c>>

RECURSIVE StrLower(_)
StrLower(s) == IF s = <<>> THEN <<>> ELSE CharLower(Head(s)) \o StrLower(Tail(s))

\* str.upper() of one ASCII letter (used to build upper-case titles)
CharUpper(c) == IF c \in LOWER_LETTERS THEN UPPER_OF[c] ELSE c

StrUpper(s) == [i \in 1..Len(s) |-> CharUpper(s[i])]

\* s.startswith(p)
StartsWith(s, p) == Len(s) >= Len(p) /\ SubSeq(s, 1, Len(p)) = p

\* s.lstrip("/")
RECURSIVE LStripSlash(_)
LStripSlash(s) == IF s # <<>> /\ Head(s) = "/" THEN LStripSlash(Tail(s)) ELSE s

\* p in s
IsSubstring(p, s) == \E i \in 1..(Len(s) - Len(p) + 1) : SubSeq(s, i, i + Len(p) - 1) = p

\* str(n) for n >= 0
RECURSIVE IntToStr(_)
IntToStr(n) == IF n < 10 THEN <<DIGITS[n + 1]>>
               ELSE IntToStr(n \div 10) \o <<DIGITS[(n % 10) + 1]>>

\* sep.join(parts)
RECURSIVE Join(_, _)
Join(sep, parts) == IF parts = <<>> THEN <<>>
                    ELSE IF Len(parts) = 1 THEN parts[1]
                    ELSE parts[1] \o sep \o Join(sep, Tail(parts))

\* ------------------------------------------------------------------ CONFIG
KEYWORDS == <<
  <<"F","r","o","m","m","e","r"," ","S","t","o","p"," ","1","9","1","2"," ","f","i","r","i","n","g"," ","p","i","n">>,
  <<"F","r","o","m","m","e","r"," ","S","t","o","p"," ","f","i","r","i","n","g"," ","p","i","n">>,
  <<"F","r","o","m","m","e","r"," ","1","9","1","2"," ","f","i","r","i","n","g"," ","p","i","n">>,
  <<"F","r","o","m","m","e","r"," ","f","i","r","i","n","g"," ","p","i","n">> >>

\* sre's one-character lower-casing of the subject character (simple
\* mapping: U+0130 goes to "i")
SreLower(c) == IF c \in UPPER_LETTERS THEN LOWER_OF[c]
               ELSE IF c = "u0130" THEN "i"
               ELSE c

\* sre's extra case equivalences of a lower-case pattern literal under
\* re.IGNORECASE: "i" also matches dotless i, "s" also matches long s
SreFixes(p) == IF p = "i" THEN {"u0131"}
               ELSE IF p = "s" THEN {"u017f"}
               ELSE {}

\* one literal of the compiled pattern against one subject character
SreLiteralIgnore(p, c) == LET lo == SreLower(p)
                              ch == SreLower(c)
                          IN  ch = lo \/ ch \in SreFixes(lo)

\* the literals of the compiled PATTERN: the lower-cased keywords (re.escape
\* only protects the spaces)
PATTERN_LITERALS == [k \in 1..Len(KEYWORDS) |-> StrLower(KEYWORDS[k])]

\* PATTERN.search(text): the alternation of the literals, compiled with
\* re.I, found at some position of text
PATTERN(text) ==
  \E k \in 1..Len(PATTERN_LITERALS) :
    \E i \in 1..(Len(text) - Len(PATTERN_LITERALS[k]) + 1) :
      \A j \in 1..Len(PATTERN_LITERALS[k]) :
        SreLiteralIgnore(PATTERN_LITERALS[k][j], text[i + j - 1])

\* item.get(key): None when the key is missing
DictGet(item, key) == IF key \in DOMAIN item THEN item[key] ELSE None

\* matches(item)
matches(item) ==
  LET t     == DictGet(item, "title")
      title == IF Falsy(t) THEN <<>> ELSE t
  IN  PATTERN(StrLower(title))

\* site registry, in iteration order (dict order of SITES)
SITES == <<"ebay", "gunbroker", "numrich">>

TEXT_TELEGRAM == <<"t","e","l","e","g","r","a","m">>
TEXT_15 == <<"1","5">>
GUNBROKER_ORIGIN == <<"h","t","t","p","s",":","/","/","w","w","w",".","g","u","n","b","r","o","k","e","r",".","c","o","m">>
NUMRICH_ORIGIN == <<"h","t","t","p","s",":","/","/","w","w","w",".","n","u","m","r","i","c","h","g","u","n","p","a","r","t","s",".","c","o","m">>
TEXT_HTTP == <<"h","t","t","p">>
LABEL_EBAY == <<"e","B","a","y">>
LABEL_GUNBROKER == <<"G","u","n","B","r","o","k","e","r">>
LABEL_NUMRICH == <<"N","u","m","r","i","c","h">>
HEADER_SUFFIX == <<" ","n","e","w"," ","F","r","o","m","m","e","r"," ","S","t","o","p"," ","p","a","r","t","(","s",")"," ","f","o","u","n","d",":">>

\* os.getenv(name, default)
getenv(env, name, default) == IF env[name] = None THEN default ELSE env[name]

\* int(text) for text without sign, blanks or underscores: the value of a
\* decimal numeral, or ValueError
RECURSIVE DigitsValue(_)
DigitsValue(s) == IF s = <<>> THEN 0
                  ELSE DigitsValue(SubSeq(s, 1, Len(s) - 1)) * 10 + (IndexIn(s[Len(s)], DIGITS) - 1)

IntParse(s) == IF s # <<>> /\ \A i \in 1..Len(s) : IndexIn(s[i], DIGITS) > 0
               THEN [raised |-> FALSE, value |-> DigitsValue(s)]
               ELSE [raised |-> TRUE, value |-> 0]

\* ------------------------------------------------------- inputs (bounded)
\* the process environment
Env(method, token, chat, timeout) ==
  [NOTIFY_METHOD |-> method, TELEGRAM_BOT_TOKEN |-> token,
   TELEGRAM_CHAT_ID |-> chat, REQUEST_TIMEOUT |-> timeout]

ENV_NONE == <<"n","o","n","e">>
ENV_TOKEN == <<"t","o","k">>
ENV_CHAT == <<"4","2">>

Environs == { Env(None,     ENV_TOKEN, ENV_CHAT, None),
              Env(ENV_NONE, ENV_TOKEN, ENV_CHAT, None),
              Env(None,     None,      ENV_CHAT, None),
              Env(None,     <<>>,      ENV_CHAT, None),
              Env(None,     ENV_TOKEN, None,     None),
              Env(None,     ENV_TOKEN, <<>>,     None),
              Env(TEXT_TELEGRAM, ENV_TOKEN, ENV_CHAT, TEXT_15),
              Env(None,     ENV_TOKEN, ENV_CHAT, <<"0">>),
              Env(None,     ENV_TOKEN, ENV_CHAT, <<"a","b","c">>) }

TITLE_NOS == <<"F","r","o","m","m","e","r"," ","S","t","o","p"," ","f","i","r","i","n","g"," ","p","i","n"," ","N","O","S">>
TITLE_UPPER == <<"F","R","O","M","M","E","R"," ","F","I","R","I","N","G"," ","P","I","N">>
TITLE_OTHER == <<"M","a","u","s","e","r"," ","b","o","l","t">>
TITLE_SHORT == <<"p","i","n">>
HREF_DUP == <<"h","t","t","p","s",":","/","/","d","u","p","/","i","t","e","m">>
HREF_ROOTED == <<"/","i","t","e","m","/","1">>
PRICE_5 == <<"$","5">>

\* result cards of a fetched page: anchor text, href attribute (None when
\* the card has no link or the link no href) and price text (None when the
\* card has no price element)
Cards == { [title |-> TITLE_NOS,   href |-> HREF_DUP,    price |-> PRICE_5],
           [title |-> TITLE_UPPER, href |-> HREF_ROOTED, price |-> None],
           [title |-> TITLE_OTHER, href |-> HREF_DUP,    price |-> PRICE_5],
           [title |-> TITLE_SHORT, href |-> None,        price |-> None] }

CardSeqs == UNION { [1..n -> Cards] : n \in 0..MaxCards }

\* response bodies: the empty document, documents of result cards, and a
\* document on which the parser raises
Pages == {[empty |-> TRUE, cards |-> <<>>, broken |-> FALSE]}
         \cup {[empty |-> FALSE, cards |-> cs, broken |-> FALSE] : cs \in CardSeqs}
         \cup {[empty |-> FALSE, cards |-> <<>>, broken |-> TRUE]}

EmptyHtml == [empty |-> TRUE, cards |-> <<>>, broken |-> FALSE]

\* what requests.get does: a 2xx response with a body, a non-2xx response,
\* or an exception (connection error, timeout)
GetResponses == {[kind |-> "ok", body |-> p] : p \in Pages}
                \cup {[kind |-> k, body |-> EmptyHtml] : k \in {"http_error", "transport_error", "timeout"}}

\* requests rejects a timeout of 0 before sending anything
GetOutcomes(timeout) == IF timeout <= 0
                        THEN {[kind |-> "timeout", body |-> EmptyHtml]}
                        ELSE GetResponses

\* what requests.post does: a response with a status code, or an exception
PostOutcomes == {[kind |-> "status", status_code |-> 200],
                 [kind |-> "status", status_code |-> 500],
                 [kind |-> "exception", status_code |-> 0]}

\* ------------------------------------------------------------------- state
VARIABLES
  environ,             \* os.environ of the process
  NOTIFY_METHOD,       \* module globals, set while the module loads
  TELEGRAM_BOT_TOKEN,
  TELEGRAM_CHAT_ID,
  REQUEST_TIMEOUT,
  pc,                  \* position of the script
  siteIdx,             \* index into SITES of the current loop iteration
  items,               \* run_once: the part of items the inner loop has not reached
  found,               \* run_once: found
  seen,                \* run_once: seen
  message,             \* argument of send_telegram
  log,                 \* lines printed to the console
  trace,               \* outbound requests and calls, in order (history)
  parsed,              \* every Listing the parsers returned in this run (history)
  exitStatus,          \* exit status of the process
  mItem,               \* matches probe: the argument
  mResult              \* matches probe: the return value

runVars == <<environ, NOTIFY_METHOD, TELEGRAM_BOT_TOKEN, TELEGRAM_CHAT_ID, REQUEST_TIMEOUT,
             pc, siteIdx, items, found, seen, message, log, trace, parsed, exitStatus>>
probeVars == <<mItem, mResult>>
vars == <<runVars, probeVars>>

Ev(op, site) == [op |-> op, site |-> site]
Line(level, what, site) == [level |-> level, what |-> what, site |-> site]

\* ----------------------------------------------------------------- Fetcher
\* fetch without its try/except: the error of requests.get or of
\* raise_for_status reaches the caller
fetch_uncaught(site, resp) ==
  IF resp.kind = "ok"
  THEN [raised |-> FALSE, ret |-> resp.body, out |-> <<>>]
  ELSE [raised |-> TRUE, ret |-> EmptyHtml, out |-> <<>>]

\* fetch(url): the body of a 2xx response; on a non-2xx status
\* (raise_for_status) or an exception of requests.get, one warning and "".
\* Every Exception is caught, so nothing is raised to the caller.
fetch(site, resp) ==
  IF resp.kind = "ok"
  THEN [raised |-> FALSE, ret |-> resp.body, out |-> <<>>]
  ELSE [raised |-> FALSE, ret |-> EmptyHtml, out |-> <<Line("WARN", "Fetch failed", site)>>]

\* ----------------------------------------------------------------- Parsers
\* href normalisation of parse_gunbroker and parse_numrich
NormalizeHref(origin, href) ==
  IF StartsWith(href, <<"/">>) THEN origin \o href
  ELSE IF StartsWith(href, TEXT_HTTP) THEN href
  ELSE origin \o <<"/">> \o LStripSlash(href)

Listing(site, title, url, price) == [site |-> site, title |-> title, url |-> url, price |-> price]

\* x or ""
OrEmpty(x) == IF Falsy(x) THEN <<>> ELSE x

RECURSIVE EbayItems(_)
EbayItems(cards) ==
  IF cards = <<>> THEN <<>>
  ELSE LET c == Head(cards)
       IN  IF Falsy(c.href) THEN EbayItems(Tail(cards))
           ELSE <<Listing(LABEL_EBAY, OrEmpty(c.title), c.href, OrEmpty(c.price))>>
                \o EbayItems(Tail(cards))

RECURSIVE GunbrokerItems(_)
GunbrokerItems(cards) ==
  IF cards = <<>> THEN <<>>
  ELSE LET c == Head(cards)
       IN  IF Falsy(c.href) THEN GunbrokerItems(Tail(cards))
           ELSE <<Listing(LABEL_GUNBROKER, OrEmpty(c.title),
                          NormalizeHref(GUNBROKER_ORIGIN, c.href), OrEmpty(c.price))>>
                \o GunbrokerItems(Tail(cards))

RECURSIVE NumrichItems(_)
NumrichItems(cards) ==
  IF cards = <<>> THEN <<>>
  ELSE LET c == Head(cards)
       IN  IF Len(OrEmpty(c.title)) < 5 \/ Falsy(c.href) THEN NumrichItems(Tail(cards))
           ELSE <<Listing(LABEL_NUMRICH, OrEmpty(c.title),
                          NormalizeHref(NUMRICH_ORIGIN, c.href), <<>>)>>
                \o NumrichItems(Tail(cards))

\* a parser returns its items, or raises on a document it cannot handle
parse_ebay(doc) == IF doc.broken THEN [raised |-> TRUE, ret |-> <<>>]
                   ELSE [raised |-> FALSE, ret |-> EbayItems(doc.cards)]

parse_gunbroker(doc) == IF doc.broken THEN [raised |-> TRUE, ret |-> <<>>]
                        ELSE [raised |-> FALSE, ret |-> GunbrokerItems(doc.cards)]

parse_numrich(doc) == IF doc.broken THEN [raised |-> TRUE, ret |-> <<>>]
                      ELSE [raised |-> FALSE, ret |-> NumrichItems(doc.cards)]

CallParser(fn, doc) == CASE fn = "parse_ebay"      -> parse_ebay(doc)
                         [] fn = "parse_gunbroker" -> parse_gunbroker(doc)
                         [] fn = "parse_numrich"   -> parse_numrich(doc)

\* safe_parse without its try/except
safe_parse_unguarded(fn, doc, label) ==
  LET r == CallParser(fn, doc)
  IN  [raised |-> r.raised, ret |-> r.ret, out |-> <<>>]

\* safe_parse(fn, html, label): fn(html), or a warning and [] when fn raises
safe_parse(fn, doc, label) ==
  LET r == CallParser(fn, doc)
  IN  IF r.raised
      THEN [raised |-> FALSE, ret |-> <<>>, out |-> <<Line("WARN", "Parser error", label)>>]
      ELSE [raised |-> FALSE, ret |-> r.ret, out |-> <<>>]

\* the if/elif chain of run_once that picks the parser of a site
ParseFor(site, doc) ==
  IF site = "ebay" THEN safe_parse("parse_ebay", doc, "eBay")
  ELSE IF site = "gunbroker" THEN safe_parse("parse_gunbroker", doc, "GunBroker")
  ELSE IF site = "numrich" THEN safe_parse("parse_numrich", doc, "Numrich")
  ELSE [raised |-> FALSE, ret |-> <<>>, out |-> <<>>]

\* ---------------------------------------------------------------- Notifier
\* send_telegram testing the credentials with "is None" instead of "not"
send_telegram_is_none(msg, resp) ==
  IF NOTIFY_METHOD # TEXT_TELEGRAM
  THEN [raised |-> FALSE, posted |-> FALSE, out |-> <<Line("INFO", "Telegram disabled", "-")>>]
  ELSE IF TELEGRAM_BOT_TOKEN = None \/ TELEGRAM_CHAT_ID = None
  THEN [raised |-> FALSE, posted |-> FALSE, out |-> <<Line("WARN", "Telegram not configured", "-")>>]
  ELSE IF resp.kind = "exception"
  THEN [raised |-> FALSE, posted |-> TRUE, out |-> <<Line("WARN", "Telegram send failed", "-")>>]
  ELSE IF resp.status_code # 200
  THEN [raised |-> FALSE, posted |-> TRUE, out |-> <<Line("WARN", "Telegram HTTP", "-")>>]
  ELSE [raised |-> FALSE, posted |-> TRUE, out |-> <<>>]

\* send_telegram without the try/except around requests.post
send_telegram_uncaught(msg, resp) ==
  IF NOTIFY_METHOD # TEXT_TELEGRAM
  THEN [raised |-> FALSE, posted |-> FALSE, out |-> <<Line("INFO", "Telegram disabled", "-")>>]
  ELSE IF Falsy(TELEGRAM_BOT_TOKEN) \/ Falsy(TELEGRAM_CHAT_ID)
  THEN [raised |-> FALSE, posted |-> FALSE, out |-> <<Line("WARN", "Telegram not configured", "-")>>]
  ELSE IF resp.kind = "exception"
  THEN [raised |-> TRUE, posted |-> TRUE, out |-> <<>>]
  ELSE IF resp.status_code # 200
  THEN [raised |-> FALSE, posted |-> TRUE, out |-> <<Line("WARN", "Telegram HTTP", "-")>>]
  ELSE [raised |-> FALSE, posted |-> TRUE, out |-> <<>>]

\* send_telegram(message), with resp what requests.post does if it is called
send_telegram(msg, resp) ==
  IF NOTIFY_METHOD # TEXT_TELEGRAM
  THEN [raised |-> FALSE, posted |-> FALSE, out |-> <<Line("INFO", "Telegram disabled", "-")>>]
  ELSE IF Falsy(TELEGRAM_BOT_TOKEN) \/ Falsy(TELEGRAM_CHAT_ID)
  THEN [raised |-> FALSE, posted |-> FALSE, out |-> <<Line("WARN", "Telegram not configured", "-")>>]
  ELSE IF resp.kind = "exception"
  THEN [raised |-> FALSE, posted |-> TRUE, out |-> <<Line("WARN", "Telegram send failed", "-")>>]
  ELSE IF resp.status_code # 200
  THEN [raised |-> FALSE, posted |-> TRUE, out |-> <<Line("WARN", "Telegram HTTP", "-")>>]
  ELSE [raised |-> FALSE, posted |-> TRUE, out |-> <<>>]

\* ------------------------------------------------------------ Orchestrator
\* the inner-loop condition without the test of seen
Keep_no_seen(it, seenUrls) == matches(it)

\* the condition of the inner loop of run_once
Keep(it, seenUrls) == matches(it) /\ it.url \notin seenUrls

\* one entry of the summary
EntryText(it) == it.site \o <<":", " ">> \o it.title \o <<"\n">> \o it.url \o <<" ">> \o OrEmpty(DictGet(it, "price"))

\* the summary joined with single newlines
Summary_single_newline(fnd) ==
  LET lines == <<IntToStr(Len(fnd)) \o HEADER_SUFFIX>> \o [i \in 1..Len(fnd) |-> EntryText(fnd[i])]
  IN  Join(<<"\n">>, lines)

\* the summary run_once hands to send_telegram
Summary(fnd) ==
  LET lines == <<IntToStr(Len(fnd)) \o HEADER_SUFFIX>> \o [i \in 1..Len(fnd) |-> EntryText(fnd[i])]
  IN  Join(<<"\n", "\n">>, lines)

\* the except clause of __main__: the error is printed with its traceback
\* and the script ends normally
MainExcept == <<Line("FATAL", "Unhandled error", "-"), Line("TRACEBACK", "Exception", "-")>>

\* ----------------------------------------------------------------- program
Init ==
  /\ environ \in Environs
  /\ NOTIFY_METHOD = None
  /\ TELEGRAM_BOT_TOKEN = None
  /\ TELEGRAM_CHAT_ID = None
  /\ REQUEST_TIMEOUT = -1
  /\ pc = "load"
  /\ siteIdx = 0
  /\ items = <<>>
  /\ found = <<>>
  /\ seen = {}
  /\ message = <<>>
  /\ log = <<>>
  /\ trace = <<>>
  /\ parsed = {}
  /\ exitStatus = -1
  /\ mItem = [title |-> <<>>]
  /\ mResult = FALSE

\* the module-level CONFIG assignments, run when the script is loaded; they
\* are outside the try of __main__, so the ValueError of int() ends the
\* process with a traceback and exit status 1
LoadConfig ==
  /\ pc = "load"
  /\ LET t == IntParse(getenv(environ, "REQUEST_TIMEOUT", TEXT_15))
     IN  /\ NOTIFY_METHOD' = getenv(environ, "NOTIFY_METHOD", TEXT_TELEGRAM)
         /\ TELEGRAM_BOT_TOKEN' = environ["TELEGRAM_BOT_TOKEN"]
         /\ TELEGRAM_CHAT_ID' = environ["TELEGRAM_CHAT_ID"]
         /\ IF t.raised
            THEN /\ REQUEST_TIMEOUT' = REQUEST_TIMEOUT
                 /\ log' = Append(log, Line("TRACEBACK", "ValueError", "-"))
                 /\ pc' = "exited"
                 /\ exitStatus' = 1
            ELSE /\ REQUEST_TIMEOUT' = t.value
                 /\ log' = log
                 /\ pc' = "main"
                 /\ exitStatus' = exitStatus
  /\ UNCHANGED <<environ, siteIdx, items, found, seen, message, trace, parsed, probeVars>>

\* __main__ calls run_once: found, seen = [], set(), and the loop starts
\* with the first site
RunOnceStart ==
  /\ pc = "main"
  /\ found' = <<>>
  /\ seen' = {}
  /\ siteIdx' = 1
  /\ pc' = "fetch"
  /\ UNCHANGED <<environ, NOTIFY_METHOD, TELEGRAM_BOT_TOKEN, TELEGRAM_CHAT_ID, REQUEST_TIMEOUT,
                 items, message, log, trace, parsed, exitStatus, probeVars>>

\* the outer loop stopping one site early
AfterSite_short(i) == IF i < Len(SITES) - 1 THEN "fetch" ELSE "summary"

\* where the outer loop goes after the site at index i
AfterSite(i) == IF i < Len(SITES) THEN "fetch" ELSE "summary"

\* one iteration of the outer loop up to the inner loop: print, fetch,
\* continue with the next site when html is empty, else parse; html is a
\* local that nothing reads after the parser call
FetchAndParse ==
  /\ pc = "fetch"
  /\ \E resp \in GetOutcomes(REQUEST_TIMEOUT) :
       LET site == SITES[siteIdx]
           f    == fetch(site, resp)
           html == f.ret
           p    == ParseFor(site, html)
           info == <<Line("INFO", "Checking", site)>>
       IN  IF f.raised
           THEN /\ trace' = Append(trace, Ev("GET", site))
                /\ log' = log \o info \o MainExcept
                /\ pc' = "exited"
                /\ exitStatus' = 0
                /\ UNCHANGED <<siteIdx, items, parsed>>
           ELSE IF html.empty
           THEN /\ trace' = Append(trace, Ev("GET", site))
                /\ log' = log \o info \o f.out
                /\ pc' = AfterSite(siteIdx)
                /\ siteIdx' = siteIdx + 1
                /\ UNCHANGED <<items, parsed, exitStatus>>
           ELSE IF p.raised
           THEN /\ trace' = trace \o <<Ev("GET", site), Ev("parse", site)>>
                /\ log' = log \o info \o f.out \o MainExcept
                /\ pc' = "exited"
                /\ exitStatus' = 0
                /\ UNCHANGED <<siteIdx, items, parsed>>
           ELSE /\ trace' = trace \o <<Ev("GET", site), Ev("parse", site)>>
                /\ log' = log \o info \o f.out \o p.out
                /\ items' = p.ret
                /\ parsed' = parsed \cup {p.ret[i] : i \in 1..Len(p.ret)}
                /\ pc' = "filter"
                /\ UNCHANGED <<siteIdx, exitStatus>>
  /\ UNCHANGED <<environ, NOTIFY_METHOD, TELEGRAM_BOT_TOKEN, TELEGRAM_CHAT_ID, REQUEST_TIMEOUT,
                 found, seen, message, probeVars>>

\* one iteration of the inner loop
FilterItem ==
  /\ pc = "filter"
  /\ items # <<>>
  /\ LET it == Head(items)
     IN  IF Keep(it, seen)
         THEN /\ seen' = seen \cup {it.url}
              /\ found' = Append(found, it)
         ELSE UNCHANGED <<seen, found>>
  /\ items' = Tail(items)
  /\ UNCHANGED <<environ, NOTIFY_METHOD, TELEGRAM_BOT_TOKEN, TELEGRAM_CHAT_ID, REQUEST_TIMEOUT,
                 pc, siteIdx, message, log, trace, parsed, exitStatus, probeVars>>

\* the inner loop is exhausted: the outer loop takes the next site
EndOfItems ==
  /\ pc = "filter"
  /\ items = <<>>
  /\ trace' = Append(trace, Ev("filtered", SITES[siteIdx]))
  /\ pc' = AfterSite(siteIdx)
  /\ siteIdx' = siteIdx + 1
  /\ UNCHANGED <<environ, NOTIFY_METHOD, TELEGRAM_BOT_TOKEN, TELEGRAM_CHAT_ID, REQUEST_TIMEOUT,
                 items, found, seen, message, log, parsed, exitStatus, probeVars>>

\* run_once without the early return
NoneFound_never(fnd) == FALSE

\* "not found" of run_once
NoneFound(fnd) == fnd = <<>>

\* after the loop: return when nothing was found, else compose the summary
\* and call send_telegram with it
Summarize ==
  /\ pc = "summary"
  /\ IF NoneFound(found)
     THEN /\ log' = Append(log, Line("INFO", "No matches found", "-"))
          /\ pc' = "return"
          /\ UNCHANGED <<message, trace>>
     ELSE /\ message' = Summary(found)
          /\ trace' = Append(trace, Ev("send_telegram", "-"))
          /\ pc' = "send_telegram"
          /\ log' = log
  /\ UNCHANGED <<environ, NOTIFY_METHOD, TELEGRAM_BOT_TOKEN, TELEGRAM_CHAT_ID, REQUEST_TIMEOUT,
                 siteIdx, items, found, seen, parsed, exitStatus, probeVars>>

\* how the trace names what requests.post did
PostTag(resp) == IF resp.kind = "exception" THEN "exception"
                 ELSE IF resp.status_code = 200 THEN "status 200"
                 ELSE "status other"

\* the body of send_telegram; run_once returns after it
SendTelegram ==
  /\ pc = "send_telegram"
  /\ \E resp \in PostOutcomes :
       LET r == send_telegram(message, resp)
       IN  /\ trace' = IF r.posted THEN Append(trace, Ev("POST", PostTag(resp))) ELSE trace
           /\ IF r.raised
              THEN /\ log' = log \o r.out \o MainExcept
                   /\ pc' = "exited"
                   /\ exitStatus' = 0
              ELSE /\ log' = log \o r.out
                   /\ pc' = "return"
                   /\ exitStatus' = exitStatus
  /\ UNCHANGED <<environ, NOTIFY_METHOD, TELEGRAM_BOT_TOKEN, TELEGRAM_CHAT_ID, REQUEST_TIMEOUT,
                 siteIdx, items, found, seen, message, parsed, probeVars>>

\* run_once returned to __main__: the script ends
ExitNormally ==
  /\ pc = "return"
  /\ pc' = "exited"
  /\ exitStatus' = 0
  /\ UNCHANGED <<environ, NOTIFY_METHOD, TELEGRAM_BOT_TOKEN, TELEGRAM_CHAT_ID, REQUEST_TIMEOUT,
                 siteIdx, items, found, seen, message, log, trace, parsed, probeVars>>

Next ==
  \/ LoadConfig
  \/ RunOnceStart
  \/ FetchAndParse
  \/ FilterItem
  \/ EndOfItems
  \/ Summarize
  \/ SendTelegram
  \/ ExitNormally

Spec == Init /\ [][Next]_vars

\* ------------------------------------------------------- probe of matches
\* padding around the phrase
Pads == UNION { [1..n -> {"x"}] : n \in 0..MaxPad }

\* s with the character at position i replaced by the characters r
Subst(s, i, r) == SubSeq(s, 1, i - 1) \o r \o SubSeq(s, i + 1, Len(s))

\* a keyword as written, in upper and in lower case, and with one character
\* replaced or removed
VariantsOf(kw) ==
  {kw, StrUpper(kw), StrLower(kw)}
  \cup { Subst(kw, i, r) : i \in 1..Len(kw),
                           r \in {<<>>, <<"x">>, <<"u0130">>, <<"u0131">>, <<"u017f">>} }
  \cup { Subst(kw, i, <<CharUpper(kw[i])>>) : i \in 1..Len(kw) }

ProbeTitles == { pre \o v \o post : pre \in Pads, post \in Pads,
                                    v \in UNION { VariantsOf(KEYWORDS[k]) : k \in 1..Len(KEYWORDS) } }
               \cup {<<>>, None, TITLE_OTHER}

\* dicts with a title, and one without the key
ProbeItems == { [title |-> t] : t \in ProbeTitles } \cup { [site |-> LABEL_EBAY] }

InitMatch ==
  /\ environ = Env(None, None, None, None)
  /\ NOTIFY_METHOD = None
  /\ TELEGRAM_BOT_TOKEN = None
  /\ TELEGRAM_CHAT_ID = None
  /\ REQUEST_TIMEOUT = -1
  /\ pc = "probe"
  /\ siteIdx = 0
  /\ items = <<>>
  /\ found = <<>>
  /\ seen = {}
  /\ message = <<>>
  /\ log = <<>>
  /\ trace = <<>>
  /\ parsed = {}
  /\ exitStatus = -1
  /\ mItem \in ProbeItems
  /\ mResult = FALSE

\* one call of matches(mItem)
MatchesCall ==
  /\ pc = "probe"
  /\ mResult' = matches(mItem)
  /\ pc' = "probed"
  /\ UNCHANGED <<environ, NOTIFY_METHOD, TELEGRAM_BOT_TOKEN, TELEGRAM_CHAT_ID, REQUEST_TIMEOUT,
                 siteIdx, items, found, seen, message, log, trace, parsed, exitStatus, mItem>>

NextMatch == MatchesCall

SpecMatch == InitMatch /\ [][NextMatch]_vars

\* ------------------------------------------------------------------ claims
TraceHas(op) == \E i \in 1..Len(trace) : trace[i].op = op
TraceCount(op) == Cardinality({i \in 1..Len(trace) : trace[i].op = op})
LogCount(what) == Cardinality({i \in 1..Len(log) : log[i].what = what})
LastLine == log[Len(log)]

\* run_once is past its loop, or the script ended with status 0
RunOver == pc \in {"summary", "send_telegram", "return"} \/ (pc = "exited" /\ exitStatus = 0)

\* C6: whatever error occurs while the program runs, errors of loading the
\* configuration included, the process ends with exit status 0.
C6_AlwaysExitsZero == pc = "exited" => exitStatus = 0

\* C8: matches returns true if and only if the lower-cased title contains a
\* lower-cased keyword as a substring; an empty or missing title never
\* matches.
C8_MatchesIffSubstring ==
  pc = "probed" =>
    LET t     == DictGet(mItem, "title")
        title == IF Falsy(t) THEN <<>> ELSE t
    IN  mResult <=> \E k \in 1..Len(KEYWORDS) : IsSubstring(StrLower(KEYWORDS[k]), StrLower(title))

Sites == {SITES[k] : k \in 1..Len(SITES)}

\* the "site" field the parser of a site writes, and its label in the log
ListingSite(site) == CASE site = "ebay" -> LABEL_EBAY
                       [] site = "gunbroker" -> LABEL_GUNBROKER
                       [] site = "numrich" -> LABEL_NUMRICH
ParserLabel(site) == CASE site = "ebay" -> "eBay"
                       [] site = "gunbroker" -> "GunBroker"
                       [] site = "numrich" -> "Numrich"

UrlsOf(fnd) == {fnd[i].url : i \in 1..Len(fnd)}
IsGet(e) == e.op = "GET"
GetsIn(tr) == SelectSeq(tr, IsGet)
EveryoneFetchedOnce == \A site \in Sites : Cardinality({i \in 1..Len(trace) : trace[i] = Ev("GET", site)}) = 1

\* C1: when no parsed Listing matches the pattern, send_telegram is never
\* called and no POST is attempted; the run logs "no matches" and ends.
C1_NoMatchNoNotification ==
  (\A l \in parsed : ~matches(l)) =>
    /\ ~TraceHas("send_telegram")
    /\ ~TraceHas("POST")
    /\ (pc = "return" \/ (pc = "exited" /\ exitStatus = 0)) =>
         LastLine = Line("INFO", "No matches found", "-")

\* a finished run in which Listings were parsed and none matched
C1_Witness ==
  /\ pc = "exited"
  /\ exitStatus = 0
  /\ parsed # {}
  /\ \A l \in parsed : ~matches(l)

C2_State ==
  /\ \A i, j \in 1..Len(found) : found[i].url = found[j].url => i = j
  /\ seen = UrlsOf(found)
  /\ \A i \in 1..Len(found) : found[i] \in parsed /\ matches(found[i])
  /\ items = <<>> => \A l \in parsed : matches(l) => l.url \in UrlsOf(found)

C2_Step ==
  /\ Len(found') >= Len(found)
  /\ SubSeq(found', 1, Len(found)) = found
  /\ found' # found =>
       /\ pc = "filter"
       /\ items # <<>>
       /\ found' = Append(found, Head(items))
       /\ Head(items).url \notin UrlsOf(found)
  /\ (pc = "filter" /\ items # <<>> /\ matches(Head(items)) /\ Head(items).url \notin UrlsOf(found)) =>
       found' = Append(found, Head(items))

\* C2: found never holds two Listings with the same URL and seen is always
\* the set of URLs of found; a matching Listing is appended exactly when its
\* URL is not yet in found, and an entry of found is never replaced or
\* removed, so the first matching Listing of a URL in processing order is
\* the one retained, whichever site produced it.
C2_FoundDeduplicated == [](C2_State) /\ [][C2_Step]_vars

\* two sites returned matching Listings with the same URL, the inner loop
\* has finished, and found holds only the first
C2_Witness ==
  /\ pc = "filter"
  /\ items = <<>>
  /\ \E l1, l2 \in parsed :
       /\ l1.site = LABEL_EBAY
       /\ l2.site = LABEL_GUNBROKER
       /\ l1.url = l2.url
       /\ matches(l1)
       /\ matches(l2)
       /\ \E i \in 1..Len(found) : found[i] = l1
       /\ \A i \in 1..Len(found) : found[i] # l2

\* fetch on every response of the model, for every site
FetchNeverRaises ==
  \A site \in Sites, resp \in GetResponses :
    LET r == fetch(site, resp)
    IN  /\ ~r.raised
        /\ resp.kind # "ok" =>
             /\ r.ret = EmptyHtml
             /\ Len(r.out) = 1
             /\ r.out[1].level = "WARN"

SafeParseNeverRaises ==
  \A fn \in {"parse_ebay", "parse_gunbroker", "parse_numrich"}, doc \in Pages :
    LET r == safe_parse(fn, doc, "label")
    IN  /\ ~r.raised
        /\ (CallParser(fn, doc).raised \/ doc.empty) => r.ret = <<>>

\* C4: safe_parse never raises and returns an empty sequence when the
\* parser raises or the document is empty; in a run a parser error on a
\* site adds nothing to found for that site, and the remaining sites are
\* still fetched, parsed and filtered.
C4_ParserGuard ==
  /\ SafeParseNeverRaises
  /\ \A site \in Sites :
       (\E i \in 1..Len(log) : log[i] = Line("WARN", "Parser error", ParserLabel(site))) =>
         /\ \A l \in parsed : l.site # ListingSite(site)
         /\ \A i \in 1..Len(found) : found[i].site # ListingSite(site)
         /\ LogCount("Unhandled error") = 0
         /\ RunOver => EveryoneFetchedOnce

\* the eBay parser raised, and a later site still added a Listing to found
C4_Witness ==
  /\ pc = "exited"
  /\ exitStatus = 0
  /\ \E i \in 1..Len(log) : log[i] = Line("WARN", "Parser error", "eBay")
  /\ found # <<>>

Configured ==
  /\ NOTIFY_METHOD = TEXT_TELEGRAM
  /\ TELEGRAM_BOT_TOKEN # None
  /\ TELEGRAM_BOT_TOKEN # <<>>
  /\ TELEGRAM_CHAT_ID # None
  /\ TELEGRAM_CHAT_ID # <<>>

\* C5: a POST is attempted only when NOTIFY_METHOD is "telegram" and both
\* credentials are present and non-empty; otherwise send_telegram logs why
\* and returns without any HTTP call.
C5_PostOnlyWhenConfigured ==
  /\ TraceHas("POST") => Configured
  /\ (TraceHas("send_telegram") /\ pc # "send_telegram" /\ ~Configured) =>
       /\ ~TraceHas("POST")
       /\ LastLine \in {Line("INFO", "Telegram disabled", "-"),
                        Line("WARN", "Telegram not configured", "-")}

\* send_telegram was called with an empty bot token and did not POST
C5_Witness ==
  /\ pc = "exited"
  /\ TraceHas("send_telegram")
  /\ TELEGRAM_BOT_TOKEN = <<>>
  /\ ~TraceHas("POST")

\* C7: when the POST answers with a status other than 200 or raises,
\* send_telegram logs a warning as its last act, does not POST again and
\* does not raise; run_once returns and the script ends with status 0.
C7_NotifyFailureSwallowed ==
  /\ TraceCount("POST") <= 1
  /\ \A i \in 1..Len(trace) :
       (trace[i].op = "POST" /\ trace[i].site # "status 200") =>
         /\ pc \in {"return", "exited"}
         /\ pc = "exited" => exitStatus = 0
         /\ LastLine \in {Line("WARN", "Telegram HTTP", "-"),
                          Line("WARN", "Telegram send failed", "-")}
         /\ LogCount("Unhandled error") = 0

\* the POST raised and the script ended with status 0
C7_Witness ==
  /\ pc = "exited"
  /\ exitStatus = 0
  /\ \E i \in 1..Len(trace) : trace[i] = Ev("POST", "exception")

\* C9: the GETs go to the sites in registry order, one per site; a GET
\* comes directly after the previous site's failed or empty fetch or after
\* the end of its inner loop; send_telegram is called at most once and only
\* after the GET of every site; a finished run has fetched every site.
C9_Sequential ==
  /\ LET gets == GetsIn(trace)
     IN  /\ Len(gets) <= Len(SITES)
         /\ \A k \in 1..Len(gets) : gets[k].site = SITES[k]
         /\ RunOver => Len(gets) = Len(SITES)
  /\ \A i \in 2..Len(trace) :
       trace[i].op = "GET" =>
         LET k == Len(GetsIn(SubSeq(trace, 1, i)))
         IN  trace[i - 1] \in {Ev("GET", SITES[k - 1]), Ev("filtered", SITES[k - 1])}
  /\ \A i \in 1..Len(trace) :
       trace[i].op = "parse" =>
         /\ i > 1
         /\ trace[i - 1] = Ev("GET", trace[i].site)
         /\ (i < Len(trace) => trace[i + 1] = Ev("filtered", trace[i].site))
  /\ pc = "fetch" => items = <<>>
  /\ TraceCount("send_telegram") <= 1
  /\ \A i \in 1..Len(trace) :
       trace[i].op = "send_telegram" =>
         /\ Len(GetsIn(SubSeq(trace, 1, i))) = Len(SITES)
         /\ \A j \in i..Len(trace) : trace[j].op \in {"send_telegram", "POST"}

\* a finished run with a failed fetch, three GETs and a notification
C9_Witness ==
  /\ pc = "exited"
  /\ TraceCount("GET") = 3
  /\ LogCount("Fetch failed") >= 1
  /\ TraceHas("send_telegram")

\* text.split("\n\n")
RECURSIVE SplitBlank(_)
SplitBlank(s) ==
  IF \E i \in 1..(Len(s) - 1) : s[i] = "\n" /\ s[i + 1] = "\n"
  THEN LET i == CHOOSE i \in 1..(Len(s) - 1) :
                  /\ s[i] = "\n" /\ s[i + 1] = "\n"
                  /\ \A j \in 1..(i - 1) : ~(s[j] = "\n" /\ s[j + 1] = "\n")
       IN  <<SubSeq(s, 1, i - 1)>> \o SplitBlank(SubSeq(s, i + 2, Len(s)))
  ELSE <<s>>

=============================================================================
